---- MODULE Spec2Model ----
(***************************************************************************)
(* A model of the modal-ctf repository:                                    *)
(*   - src/server.py               the local front-end (POST /execute,    *)
(*                                 GET /mode, GET /health, log_to_sidecar) *)
(*   - src/logger/logger_service.py the write-only logging sidecar         *)
(*   - src/modal_function.py       run_untrusted_code                      *)
(*                                                                         *)
(* Strings are sequences of symbols.  A symbol is a one-character string,  *)
(* or one of the fixed field names of the program's dictionaries, which    *)
(* the model treats as a single symbol; Alphabet lists the symbols in the  *)
(* order Python's string comparison gives them.  Optional[str] is a        *)
(* sequence of length at most one: <<>> is None, <<s>> is the string s.    *)
(***************************************************************************)
EXTENDS Integers, Sequences, FiniteSets, TLC

VARIABLES
    \* ---- logger sidecar (logger_service.py)
    sidecarEnv,     \* os.environ of the sidecar process: LOGGER_SECRET
    frontEnv,       \* os.environ LOGGER_SECRET of the front-end that signs entries
    umask,          \* the sidecar process's umask
    now,            \* the wall clock, in microseconds (datetime.utcnow())
    logDir,         \* the /logs directory: <<>> when absent, <<mode>> otherwise
    fs,             \* the files of /logs: name -> <<>> or <<[owner, mode]>>
    cur,            \* the POST /log request being handled, and the position in its handler
    nreq,           \* number of POST /log requests received
    logged,         \* the requests answered "logged": [id, ts]
    fsAtReceive,    \* fs and logDir when the current request arrived
    \* ---- front-end (server.py)
    environ,        \* os.environ of each front-end process at start-up
    last,           \* the last request each front-end process answered
    \* ---- run_untrusted_code (modal_function.py)
    sys_stdout,     \* sys.stdout of the container process
    call            \* the last invocation of run_untrusted_code

loggerVars == <<sidecarEnv, frontEnv, umask, now, logDir, fs, cur, nreq, logged, fsAtReceive>>
frontVars  == <<environ, last>>
runVars    == <<sys_stdout, call>>
vars       == <<loggerVars, frontVars, runVars>>

-----------------------------------------------------------------------------
(* Bounds *)

\* largest integer key of a dictionary returned by the submitted code
MaxKey == 10
\* POST /log requests received in one behaviour
MaxLogRequests == 2
\* largest value of the microsecond clock
MaxClock == 2

-----------------------------------------------------------------------------
(* Strings *)

None == <<>>
Some(s) == <<s>>

\* Python's ordering of the symbols the model uses (code point order).
Alphabet ==
    << "\"", "'", "0", "1", "2", "3", "4", "5", "6", "7", "8", "9",
       "A", "E", "F", "I", "K", "L", "R", "S", "T", "U", "W", "Y", "\\",
       "a", "b", "c", "client_ip", "code", "details", "e", "error", "f",
       "firewall_blocked", "hint", "hmac_signature", "i", "k", "l", "mode",
       "output", "r", "result", "s", "success", "t", "u", "user_agent", "w",
       "x", "y" >>

Ord(c) == CHOOSE i \in 1..Len(Alphabet) : Alphabet[i] = c

\* str.lower(), symbol by symbol
LowerOf ==
    [c \in {"A", "E", "F", "I", "K", "L", "R", "S", "T", "U", "W", "Y"} |->
        CASE c = "A" -> "a" [] c = "E" -> "e" [] c = "F" -> "f" [] c = "I" -> "i"
          [] c = "K" -> "k" [] c = "L" -> "l" [] c = "R" -> "r" [] c = "S" -> "s"
          [] c = "T" -> "t" [] c = "U" -> "u" [] c = "W" -> "w" [] c = "Y" -> "y"]

lower(s) == [i \in 1..Len(s) |-> IF s[i] \in DOMAIN LowerOf THEN LowerOf[s[i]] ELSE s[i]]

\* the Python expression `sub in s`
Contains(s, sub) ==
    \E i \in 1..(Len(s) - Len(sub) + 1) : SubSeq(s, i, i + Len(sub) - 1) = sub

\* Python's s < t on strings
StrLess(s, t) ==
    \E i \in 1..(Len(t)) :
        /\ \A j \in 1..(i - 1) : j <= Len(s) /\ s[j] = t[j]
        /\ \/ i = Len(s) + 1
           \/ i <= Len(s) /\ Ord(s[i]) < Ord(t[i])

\* strip_quotes: one pair of matching surrounding quotes is removed
strip_quotes(value) ==
    IF /\ Len(value) >= 2
       /\ \/ value[1] = "\"" /\ value[Len(value)] = "\""
          \/ value[1] = "'" /\ value[Len(value)] = "'"
    THEN SubSeq(value, 2, Len(value) - 1)
    ELSE value

\* get_env: env maps the variables that are set to their values; default is Optional
get_env(env, key, default) ==
    LET value == IF key \in DOMAIN env THEN Some(env[key]) ELSE default
    IN  IF value # None THEN Some(strip_quotes(value[1])) ELSE value

\* str(n) for n >= 0
RECURSIVE IntToStr(_)
IntToStr(n) ==
    LET d == <<"0", "1", "2", "3", "4", "5", "6", "7", "8", "9">>[(n % 10) + 1]
    IN  IF n < 10 THEN <<d>> ELSE IntToStr(n \div 10) \o <<d>>

-----------------------------------------------------------------------------
(* Python values and json *)

PyNone     == [t |-> "none", n |-> 0, s |-> <<>>, items |-> <<>>]
PyBool(b)  == [t |-> "bool", n |-> IF b THEN 1 ELSE 0, s |-> <<>>, items |-> <<>>]
PyInt(n)   == [t |-> "int", n |-> n, s |-> <<>>, items |-> <<>>]
PyStr(s)   == [t |-> "str", n |-> 0, s |-> s, items |-> <<>>]
\* a dict: its items in insertion order, each <<key, value>>
PyDict(it) == [t |-> "dict", n |-> 0, s |-> <<>>, items |-> it]
\* an object json cannot serialise (a set, bytes, an instance)
PyObject   == [t |-> "object", n |-> 0, s |-> <<>>, items |-> <<>>]

Keys(d) == {d.items[i][1] : i \in 1..Len(d.items)}
HasKey(d, k) == PyStr(k) \in Keys(d)
\* d.get(k, default)
DictGet(d, k, default) ==
    IF HasKey(d, k)
    THEN d.items[CHOOSE i \in 1..Len(d.items) : d.items[i][1] = PyStr(k)][2]
    ELSE default
\* d[k] = v
DictSet(d, k, v) ==
    IF HasKey(d, k)
    THEN PyDict([i \in 1..Len(d.items) |->
                    IF d.items[i][1] = PyStr(k) THEN <<PyStr(k), v>> ELSE d.items[i]])
    ELSE PyDict(Append(d.items, <<PyStr(k), v>>))

\* the key json writes for a dict key
KeyStr(k) == IF k.t = "int" THEN IntToStr(k.n) ELSE k.s

\* Python's k1 < k2 between two dict keys of one type
KeyLess(k1, k2) == IF k1.t = "int" THEN k1.n < k2.n ELSE StrLess(k1.s, k2.s)

\* sorted(items): insertion sort by key
RECURSIVE SortItems(_)
SortItems(it) ==
    IF Len(it) <= 1 THEN it
    ELSE LET rest == SortItems(Tail(it))
             x    == Head(it)
             pos  == Cardinality({i \in 1..Len(rest) : KeyLess(rest[i][1], x[1])})
         IN  SubSeq(rest, 1, pos) \o <<x>> \o SubSeq(rest, pos + 1, Len(rest))

\* json.dumps raises TypeError: an object json cannot serialise, or, with
\* sort_keys, keys of a dict that Python cannot compare
RECURSIVE DumpsRaises(_, _)
DumpsRaises(v, sort_keys) ==
    \/ v.t = "object"
    \/ /\ v.t = "dict"
       /\ \/ sort_keys /\ Cardinality({k.t : k \in Keys(v)}) > 1
          \/ \E i \in 1..Len(v.items) : DumpsRaises(v.items[i][2], sort_keys)

\* the string escapes of json.dumps
RECURSIVE Escape(_)
Escape(s) ==
    IF s = <<>> THEN <<>>
    ELSE (IF Head(s) = "\"" THEN <<"\\", "\"">>
          ELSE IF Head(s) = "\\" THEN <<"\\", "\\">>
          ELSE <<Head(s)>>) \o Escape(Tail(s))

\* json.dumps(v, sort_keys=sort_keys), where it does not raise
RECURSIVE json_dumps(_, _)
RECURSIVE DumpItems(_, _)
DumpItems(it, sort_keys) ==
    IF it = <<>> THEN <<>>
    ELSE <<"\"">> \o Escape(KeyStr(it[1][1])) \o <<"\"", ": ">>
         \o json_dumps(it[1][2], sort_keys)
         \o (IF Len(it) > 1 THEN <<", ">> ELSE <<>>)
         \o DumpItems(Tail(it), sort_keys)
json_dumps(v, sort_keys) ==
    CASE v.t = "none" -> <<"null">>
      [] v.t = "bool" -> IF v.n = 1 THEN <<"true">> ELSE <<"false">>
      [] v.t = "int"  -> IntToStr(v.n)
      [] v.t = "str"  -> <<"\"">> \o Escape(v.s) \o <<"\"">>
      [] v.t = "dict" ->
            <<"{">> \o DumpItems(IF sort_keys THEN SortItems(v.items) ELSE v.items, sort_keys)
                    \o <<"}">>

\* json.loads(json.dumps(v)): what the receiver of a JSON document holds.
\* Every key is a string; of two items with one key the later value wins.
RECURSIVE json_roundtrip(_)
RECURSIVE LoadItems(_, _)
LoadItems(it, acc) ==
    IF it = <<>> THEN acc
    ELSE LoadItems(Tail(it), DictSet(acc, KeyStr(it[1][1]), json_roundtrip(it[1][2])))
json_roundtrip(v) ==
    IF v.t = "dict" THEN LoadItems(v.items, PyDict(<<>>)) ELSE v

-----------------------------------------------------------------------------
(* hmac *)

\* hmac.new(key, message, sha256).hexdigest(): an ASCII string that two calls
\* share exactly when key and message are the same
hmac_hexdigest(key, message) == [kind |-> "hex", key |-> key, msg |-> message]
\* other strings a client can put in hmac_signature
OtherAsciiSignature == [kind |-> "ascii", key |-> <<>>, msg |-> <<>>]
NonAsciiSignature   == [kind |-> "nonascii", key |-> <<>>, msg |-> <<>>]

\* hmac.compare_digest(a, b) raises TypeError on a str with non-ASCII characters
compare_digest_raises(a, b) == a.kind = "nonascii" \/ b.kind = "nonascii"
compare_digest(a, b) == a = b

-----------------------------------------------------------------------------
(* server.py: configuration read at start-up *)

\* VULNERABLE_MODE = get_env("VULNERABLE", "false").lower() in ["true", "1", "yes"]
VULNERABLE_MODE(env) ==
    lower(get_env(env, "VULNERABLE", Some(<<"f", "a", "l", "s", "e">>))[1])
        \in {<<"t", "r", "u", "e">>, <<"1">>, <<"y", "e", "s">>}

\* LOGGER_URL = get_env("LOGGER_URL")
LOGGER_URL(env) == get_env(env, "LOGGER_URL", None)

\* LOGGER_SECRET = get_env("LOGGER_SECRET", "default-secret-change-me"), in both programs
LOGGER_SECRET(env) == get_env(env, "LOGGER_SECRET", Some(<<"default-secret-change-me">>))[1]

\* "vulnerable" if VULNERABLE_MODE else "secure"
ModeName(env) == IF VULNERABLE_MODE(env) THEN <<"vulnerable">> ELSE <<"secure">>

-----------------------------------------------------------------------------
(* server.py: log_to_sidecar *)

\* the four fields that are signed, in the order the front-end inserts them
LogData(code, output, client_ip, user_agent) ==
    PyDict(<< <<PyStr(<<"code">>), PyStr(code)>>,
              <<PyStr(<<"output">>), output>>,
              <<PyStr(<<"client_ip">>), PyStr(client_ip)>>,
              <<PyStr(<<"user_agent">>), PyStr(user_agent)>> >>)

\* the LogEntry the sidecar's framework builds from the JSON document posted
WireEntry(log_data, signature) ==
    LET doc == json_roundtrip(log_data)
    IN  [code           |-> DictGet(doc, <<"code">>, PyNone).s,
         output         |-> DictGet(doc, <<"output">>, PyNone),
         client_ip      |-> DictGet(doc, <<"client_ip">>, PyNone).s,
         user_agent     |-> DictGet(doc, <<"user_agent">>, PyNone).s,
         hmac_signature |-> signature]

\* log_to_sidecar: the entries handed to the HTTP client (none or one).  Whatever
\* the POST does (post: "200", "non200", "raise") is printed or swallowed.
log_to_sidecar(env, code, output, client_ip, user_agent, post) ==
    IF LOGGER_URL(env) = None \/ LOGGER_URL(env) = Some(<<>>)
    THEN <<>>
    ELSE LET log_data == LogData(code, output, client_ip, user_agent)
         IN  IF DumpsRaises(log_data, TRUE)
             THEN <<>>      \* except Exception: printed, not re-raised
             ELSE LET message   == json_dumps(log_data, TRUE)
                      signature == hmac_hexdigest(LOGGER_SECRET(env), message)
                  IN  <<WireEntry(log_data, signature)>>

\* whether an exception leaves log_to_sidecar: `except Exception` prints and returns.
\* (log_to_sidecar_reraises: the handler re-raises what the POST raised.)
log_to_sidecar_reraises(env, code, output, post) ==
    LOGGER_URL(env) # None /\ LOGGER_URL(env) # Some(<<>>) /\ post = "raise"
log_to_sidecar_raises(env, code, output, post) == FALSE

-----------------------------------------------------------------------------
(* server.py: execute_code *)

\* the response_data of the try branch
SuccessData(env, result) ==
    PyDict(<< <<PyStr(<<"success">>), PyBool(TRUE)>>,
              <<PyStr(<<"result">>), DictGet(result, <<"result">>, PyNone)>>,
              <<PyStr(<<"output">>), DictGet(result, <<"output">>, PyNone)>>,
              <<PyStr(<<"error">>), DictGet(result, <<"error">>, PyNone)>>,
              <<PyStr(<<"mode">>), PyStr(ModeName(env))>> >>)

\* (is_firewall_block_cased: the comparison without .lower())
is_firewall_block_cased(error_message) ==
    \/ Contains(error_message, <<"r", "f", "f", "i", "c", "k", "l", "e">>)
    \/ Contains(error_message, <<"f", "i", "r", "e", "w", "a", "l", "l">>)

\* "rffickle" in error_message.lower() or "firewall" in error_message.lower()
is_firewall_block(error_message) ==
    \/ Contains(lower(error_message), <<"r", "f", "f", "i", "c", "k", "l", "e">>)
    \/ Contains(lower(error_message), <<"f", "i", "r", "e", "w", "a", "l", "l">>)

\* the response_data of the except branch
ErrorData(env, error_message, type_name) ==
    LET blocked == is_firewall_block(error_message) /\ ~VULNERABLE_MODE(env)
        base == PyDict(<<
            <<PyStr(<<"success">>), PyBool(FALSE)>>,
            <<PyStr(<<"error">>), PyStr(<<"Failed to execute code: ">> \o error_message)>>,
            <<PyStr(<<"details">>), PyStr(<<type_name>>)>>,
            <<PyStr(<<"mode">>), PyStr(ModeName(env))>>,
            <<PyStr(<<"firewall_blocked">>), PyBool(blocked)>> >>)
    IN  IF blocked
        THEN DictSet(base, <<"hint">>,
                PyStr(<<"The pickle firewall blocked your attack. This is expected in secure mode!">>))
        ELSE base

\* lines 171-179: the code of the request, or the exception that reading it raises
ReadCode(req) ==
    IF req.content_type = "application/json"
    THEN CASE req.body.kind = "json_object" ->
                [ok |-> TRUE, code |-> DictGet(req.body.doc, <<"code">>, PyStr(<<>>)).s,
                 msg |-> <<>>, type |-> ""]
           [] req.body.kind = "json_array" ->
                [ok |-> FALSE, code |-> <<>>,
                 msg |-> <<"'list' object has no attribute 'get'">>, type |-> "AttributeError"]
           [] req.body.kind = "text" ->
                [ok |-> FALSE, code |-> <<>>,
                 msg |-> <<"Expecting value: line 1 column 1 (char 0)">>, type |-> "JSONDecodeError"]
           [] req.body.kind = "badbytes" ->
                [ok |-> FALSE, code |-> <<>>,
                 msg |-> <<"'utf-8' codec can't decode byte 0xff in position 0: invalid start byte">>,
                 type |-> "UnicodeDecodeError"]
    ELSE CASE req.body.kind = "text" ->
                [ok |-> TRUE, code |-> req.body.text, msg |-> <<>>, type |-> ""]
           [] req.body.kind = "json_object" ->
                [ok |-> TRUE, code |-> json_dumps(req.body.doc, FALSE), msg |-> <<>>, type |-> ""]
           [] req.body.kind = "json_array" ->
                [ok |-> TRUE, code |-> <<"[", "]">>, msg |-> <<>>, type |-> ""]
           [] req.body.kind = "badbytes" ->
                [ok |-> FALSE, code |-> <<>>,
                 msg |-> <<"'utf-8' codec can't decode byte 0xff in position 0: invalid start byte">>,
                 type |-> "UnicodeDecodeError"]

\* a response: handled is FALSE when the exception left the handler and the
\* framework answered for it
Response(status, body) ==
    [status |-> status, handled |-> TRUE, exc |-> "", body |-> json_roundtrip(body)]
Unhandled(type_name) ==
    [status |-> 500, handled |-> FALSE, exc |-> type_name,
     body |-> PyStr(<<"Internal Server Error">>)]

\* (ExceptBranchHintAfterLog: the hint is added to response_data after the entry is logged)
ExceptBranchHintAfterLog(env, code_bound, code, error_message, type_name, client_ip, user_agent, post, sent) ==
    LET response_data == ErrorData(env, error_message, type_name)
        logged_data == PyDict(SelectSeq(response_data.items,
                                        LAMBDA it : it[1] # PyStr(<<"hint">>)))
    IN  IF ~code_bound
        THEN [response |-> Unhandled("UnboundLocalError"), sent |-> sent]
        ELSE [response |-> Response(500, response_data),
              sent |-> sent \o log_to_sidecar(env, code, logged_data, client_ip, user_agent, post)]

\* lines 208-228: the except branch.  code_bound: whether the local variable
\* `code` was assigned before the exception
ExceptBranch(env, code_bound, code, error_message, type_name, client_ip, user_agent, post, sent) ==
    LET response_data == ErrorData(env, error_message, type_name)
    IN  IF ~code_bound
        THEN \* `code` is read to call log_to_sidecar: UnboundLocalError
             [response |-> Unhandled("UnboundLocalError"), sent |-> sent]
        ELSE IF log_to_sidecar_raises(env, code, response_data, post)
        THEN [response |-> Unhandled("Exception"), sent |-> sent]
        ELSE [response |-> Response(500, response_data),
              sent |-> sent \o log_to_sidecar(env, code, response_data, client_ip, user_agent, post)]

\* lines 181-206: the try branch from the remote call on
TryBranch(env, code, remote, client_ip, user_agent, post) ==
    IF remote.from_name = "raise"
    THEN ExceptBranch(env, TRUE, code, <<"lookup failed">>, "NotFoundError",
                      client_ip, user_agent, post, <<>>)
    ELSE IF remote.kind = "raise"
    THEN ExceptBranch(env, TRUE, code, remote.msg, remote.type,
                      client_ip, user_agent, post, <<>>)
    ELSE LET response_data == SuccessData(env, remote.value)
             sent == log_to_sidecar(env, code, response_data, client_ip, user_agent, post)
         IN  IF log_to_sidecar_raises(env, code, response_data, post)
             THEN ExceptBranch(env, TRUE, code, <<"logger failed">>, "Exception",
                               client_ip, user_agent, post, <<>>)
             ELSE IF DumpsRaises(response_data, FALSE)
             THEN ExceptBranch(env, TRUE, code,
                               <<"Object of type set is not JSON serializable">>, "TypeError",
                               client_ip, user_agent, post, sent)
             ELSE [response |-> Response(200, response_data), sent |-> sent]

\* the whole handler of POST /execute
execute_code(env, req, remote, post) ==
    LET rd == ReadCode(req)
    IN  IF rd.ok
        THEN TryBranch(env, rd.code, remote, req.client_ip, req.user_agent, post)
        ELSE ExceptBranch(env, FALSE, <<>>, rd.msg, rd.type,
                          req.client_ip, req.user_agent, post, <<>>)

\* use_firewall of modal.Function.from_name: <<>> when the call is not reached
use_firewall(env, req) == IF ReadCode(req).ok THEN <<~VULNERABLE_MODE(env)>> ELSE <<>>

\* GET /mode
mode(env) ==
    Response(200, PyDict(<<
        <<PyStr(<<"mode">>), PyStr(ModeName(env))>>,
        <<PyStr(<<"firewall_enabled">>), PyBool(~VULNERABLE_MODE(env))>>,
        <<PyStr(<<"description">>),
          PyStr(IF VULNERABLE_MODE(env) THEN <<"Pickle attacks WILL work">>
                                        ELSE <<"Pickle attacks are BLOCKED">>)>> >>))

\* GET /health (the fields that do not depend on the host)
health(env) ==
    Response(200, PyDict(<<
        <<PyStr(<<"status">>), PyStr(<<"healthy">>)>>,
        <<PyStr(<<"mode">>), PyStr(ModeName(env))>>,
        <<PyStr(<<"firewall_enabled">>), PyBool(~VULNERABLE_MODE(env))>>,
        <<PyStr(<<"logger_configured">>),
          PyBool(LOGGER_URL(env) # None /\ LOGGER_URL(env) # Some(<<>>))>> >>))

-----------------------------------------------------------------------------
(* What the remote function returns or raises, and what the front-end signs *)

\* values of the "result" key: what the last expression of the submitted code evaluates to
ResultValues ==
    { PyNone,
      PyDict(<< <<PyStr(<<"b">>), PyInt(1)>>, <<PyStr(<<"a">>), PyInt(2)>> >>),
      PyDict(<< <<PyInt(1), PyStr(<<"a">>)>>, <<PyInt(MaxKey), PyStr(<<"b">>)>> >>),
      PyDict(<< <<PyInt(MaxKey), PyStr(<<"a">>)>>, <<PyInt(9), PyStr(<<"b">>)>> >>),
      PyDict(<< <<PyInt(1), PyStr(<<"a">>)>>, <<PyStr(<<"b">>), PyInt(2)>> >>),
      PyObject }

\* the dictionaries run_untrusted_code returns
RemoteValues ==
    { PyDict(<< <<PyStr(<<"result">>), r>>,
                <<PyStr(<<"output">>), PyStr(<<"o", "u", "t">>)>>,
                <<PyStr(<<"error">>), PyNone>> >>) : r \in ResultValues }
    \cup
    { PyDict(<< <<PyStr(<<"result">>), PyNone>>,
                <<PyStr(<<"output">>), PyStr(<<>>)>>,
                <<PyStr(<<"error">>), PyStr(<<"NameError: x">>)>> >>) }

\* messages of the exceptions the remote call raises
Messages ==
    { <<"R", "F", "F", "i", "c", "k", "l", "e">>,
      <<"x", " ", "F", "I", "R", "E", "W", "A", "L", "L", " ", "x">>,
      <<"f", "i", "r", "e", " ", "w", "a", "l", "l">> }

\* submitted code
Codes == { <<"\"", "a", "\"">> }

ClientIp  == <<"1", "0", ".", "0", ".", "0", ".", "1">>
UserAgent == <<"c", "u", "r", "l">>

\* every response_data execute_code builds
FrontOutputs(env) ==
    {SuccessData(env, v) : v \in RemoteValues}
    \cup {ErrorData(env, m, "RemoteError") : m \in Messages}

\* every entry log_to_sidecar sends
SentByFrontEnd(env) ==
    UNION { {log_to_sidecar(env, c, o, ClientIp, UserAgent, "200")[i] :
                i \in 1..Len(log_to_sidecar(env, c, o, ClientIp, UserAgent, "200"))} :
            c \in Codes, o \in FrontOutputs(env) }

-----------------------------------------------------------------------------
(* logger_service.py *)

\* entry.model_dump() without hmac_signature, in the order of LogEntry's fields
EntryData(entry) ==
    PyDict(<< <<PyStr(<<"code">>), PyStr(entry.code)>>,
              <<PyStr(<<"output">>), entry.output>>,
              <<PyStr(<<"client_ip">>), PyStr(entry.client_ip)>>,
              <<PyStr(<<"user_agent">>), PyStr(entry.user_agent)>> >>)

\* the expected_signature of verify_hmac
expected_signature(env, entry) ==
    hmac_hexdigest(LOGGER_SECRET(env), json_dumps(EntryData(entry), TRUE))

verify_hmac_raises(env, entry) ==
    compare_digest_raises(entry.hmac_signature, expected_signature(env, entry))
verify_hmac(env, entry) ==
    compare_digest(entry.hmac_signature, expected_signature(env, entry))

\* permission bits
Mode666 == {"ur", "uw", "gr", "gw", "or", "ow"}
Mode640 == {"ur", "uw", "gr"}
Mode750 == {"ur", "uw", "ux", "gr", "gx"}
ExecBits == {"ux", "gx", "ox"}
Umasks == { {"gw", "ow"}, {} }

\* the mode of metadata_file.chmod, input_file.chmod, output_file.chmod
chmod_mode_bad == Mode750
chmod_mode == Mode640

Kinds == {"metadata.json", "input.txt", "output.json"}
FileNames == (0..MaxClock) \X Kinds

NoEntry == WireEntry(LogData(<<>>, PyDict(<<>>), <<>>, <<>>), OtherAsciiSignature)
Idle == [id |-> 0, entry |-> NoEntry, front |-> FALSE, pc |-> "idle",
         ts |-> 0, status |-> 0, detail |-> ""]

\* the answer of POST /log
Answer(status, detail) == [cur EXCEPT !.pc = "done", !.status = status, !.detail = detail]
Goto(pc) == [cur EXCEPT !.pc = pc]

\* a POST /log request whose body validated as a LogEntry reaches the handler
Receive(entry, front) ==
    /\ nreq' = nreq + 1
    /\ cur' = [id |-> nreq + 1, entry |-> entry, front |-> front, pc |-> "verify",
               ts |-> 0, status |-> 0, detail |-> ""]
    /\ fsAtReceive' = [fs |-> fs, logDir |-> logDir]
    /\ UNCHANGED <<sidecarEnv, frontEnv, umask, now, logDir, fs, logged, frontVars, runVars>>

ReceiveFromFrontEnd ==
    /\ cur.pc = "idle"
    /\ nreq < MaxLogRequests
    /\ \E e \in SentByFrontEnd(frontEnv) : Receive(e, TRUE)

\* a client that does not hold the secret: the fields of an entry with another signature
ReceiveForged ==
    /\ cur.pc = "idle"
    /\ nreq < MaxLogRequests
    /\ \E e \in SentByFrontEnd(frontEnv) :
        \E sig \in {OtherAsciiSignature, NonAsciiSignature,
                    hmac_hexdigest(<<"guess">>, json_dumps(EntryData(e), TRUE))} :
            Receive([e EXCEPT !.hmac_signature = sig], FALSE)

\* lines 77-80
Verify ==
    /\ cur.pc = "verify"
    /\ cur' = IF verify_hmac_raises(sidecarEnv, cur.entry)
              THEN Answer(500, "Internal Server Error")
              ELSE IF ~verify_hmac(sidecarEnv, cur.entry)
              THEN Answer(403, "Invalid signature")
              ELSE Goto("stamp")
    /\ UNCHANGED <<sidecarEnv, frontEnv, umask, now, logDir, fs, nreq, logged, fsAtReceive, frontVars, runVars>>

\* lines 82-92: the timestamp is the wall clock, which has moved on by the next
\* read.  (Longer pauses between requests only leave gaps between the timestamps.)
Stamp ==
    /\ cur.pc = "stamp"
    /\ now < MaxClock
    /\ cur' = [cur EXCEPT !.pc = "mkdir", !.ts = now]
    /\ now' = now + 1
    /\ UNCHANGED <<sidecarEnv, frontEnv, umask, logDir, fs, nreq, logged, fsAtReceive, frontVars, runVars>>

\* line 97: log_dir.mkdir(exist_ok=True, mode=0o750)
Mkdir ==
    /\ cur.pc = "mkdir"
    /\ logDir' = IF logDir = <<>> THEN <<Mode750 \ umask>> ELSE logDir
    /\ cur' = Goto("write_metadata.json")
    /\ UNCHANGED <<sidecarEnv, frontEnv, umask, now, fs, nreq, logged, fsAtReceive, frontVars, runVars>>

NextKind(k) ==
    CASE k = "metadata.json" -> "write_input.txt"
      [] k = "input.txt"     -> "write_output.json"
      [] k = "output.json"   -> "return"

\* write_text: the file is created with 0o666 less the umask, or truncated in place
write_text(k) ==
    /\ cur.pc = "write_" \o k
    /\ logDir # <<>>
    /\ fs' = [fs EXCEPT ![<<cur.ts, k>>] =
                IF @ = <<>> THEN <<[owner |-> cur.id, mode |-> Mode666 \ umask]>>
                            ELSE <<[owner |-> cur.id, mode |-> @[1].mode]>>]
    /\ cur' = Goto("chmod_" \o k)
    /\ UNCHANGED <<sidecarEnv, frontEnv, umask, now, logDir, nreq, logged, fsAtReceive, frontVars, runVars>>

chmod(k) ==
    /\ cur.pc = "chmod_" \o k
    /\ fs' = [fs EXCEPT ![<<cur.ts, k>>] = <<[@[1] EXCEPT !.mode = chmod_mode]>>]
    /\ cur' = Goto(NextKind(k))
    /\ UNCHANGED <<sidecarEnv, frontEnv, umask, now, logDir, nreq, logged, fsAtReceive, frontVars, runVars>>

\* line 115
ReturnLogged ==
    /\ cur.pc = "return"
    /\ cur' = Answer(200, "logged")
    /\ logged' = logged \cup {[id |-> cur.id, ts |-> cur.ts]}
    /\ UNCHANGED <<sidecarEnv, frontEnv, umask, now, logDir, fs, nreq, fsAtReceive, frontVars, runVars>>

\* lines 117-122: mkdir, write_text or chmod raises (disk full, permissions)
IOError ==
    /\ cur.pc \in {"mkdir"} \cup {"write_" \o k : k \in Kinds} \cup {"chmod_" \o k : k \in Kinds}
    /\ cur' = Answer(500, "Logging failed")
    /\ UNCHANGED <<sidecarEnv, frontEnv, umask, now, logDir, fs, nreq, logged, fsAtReceive, frontVars, runVars>>

\* the response has been sent; the event loop takes the next request
Close ==
    /\ cur.pc = "done"
    /\ cur' = Idle
    /\ UNCHANGED <<sidecarEnv, frontEnv, umask, now, logDir, fs, nreq, logged, fsAtReceive, frontVars, runVars>>

\* the wall clock is set back (clock synchronisation, an operator): datetime.utcnow()
\* is not monotonic.  The clock is read by Stamp alone, so a change of the clock while
\* a handler runs shows as a change before the next request arrives.
ClockSetBack ==
    /\ cur.pc = "idle"
    /\ now > 0
    /\ now' = now - 1
    /\ UNCHANGED <<sidecarEnv, frontEnv, umask, logDir, fs, cur, nreq, logged, fsAtReceive, frontVars, runVars>>

-----------------------------------------------------------------------------
(* server.py: the requests *)

\* two front-end processes, each started with its own environment
Servers == {"a", "b"}

Bodies ==
    { [kind |-> "text", text |-> <<"1">>, doc |-> PyNone],
      [kind |-> "badbytes", text |-> <<>>, doc |-> PyNone],
      [kind |-> "json_object", text |-> <<>>,
       doc |-> PyDict(<< <<PyStr(<<"code">>), PyStr(<<"1">>)>> >>)],
      [kind |-> "json_object", text |-> <<>>, doc |-> PyDict(<<>>)],
      [kind |-> "json_array", text |-> <<>>, doc |-> PyNone] }

Requests ==
    [content_type : {"application/json", "text/plain"}, body : Bodies,
     client_ip : {ClientIp}, user_agent : {UserAgent}]

\* what modal.Function.from_name and modal_function.remote do
Remotes ==
    { [from_name |-> "raise", kind |-> "raise", msg |-> <<>>, type |-> "NotFoundError",
       value |-> PyNone] }
    \cup { [from_name |-> "ok", kind |-> "raise", msg |-> m, type |-> "RemoteError",
            value |-> PyNone] : m \in Messages }
    \cup { [from_name |-> "ok", kind |-> "return", msg |-> <<>>, type |-> "", value |-> v] :
            v \in RemoteValues }

\* what the POST to the sidecar does: answers 200, answers another status, raises
\* (timeout, connection refused)
Posts == {"200", "non200", "raise"}

NoRequest ==
    [endpoint |-> "none",
     req |-> [content_type |-> "", body |-> [kind |-> "", text |-> <<>>, doc |-> PyNone],
              client_ip |-> <<>>, user_agent |-> <<>>],
     remote |-> [from_name |-> "", kind |-> "", msg |-> <<>>, type |-> "", value |-> PyNone],
     post |-> "",
     use_firewall |-> <<>>,
     sent |-> <<>>,
     response |-> [status |-> 0, handled |-> TRUE, exc |-> "", body |-> PyNone]]

\* POST /execute: one request, with one outcome of the remote call, reaches each
\* process; each process has its own logger and its own outcome of the log write
PostExecute ==
    /\ \A s \in Servers : last[s].endpoint = "none"
    /\ \E req \in Requests, remote \in Remotes :
        \E post \in [Servers -> Posts] :
            last' = [s \in Servers |->
                    LET r == execute_code(environ[s], req, remote, post[s])
                    IN  [endpoint |-> "execute", req |-> req, remote |-> remote,
                         post |-> post[s],
                         use_firewall |-> use_firewall(environ[s], req),
                         sent |-> r.sent, response |-> r.response]]
    /\ UNCHANGED <<environ, loggerVars, runVars>>

GetMode ==
    /\ \A s \in Servers : last[s].endpoint = "none"
    /\ \E s \in Servers :
        last' = [last EXCEPT ![s] =
                [NoRequest EXCEPT !.endpoint = "mode", !.response = mode(environ[s])]]
    /\ UNCHANGED <<environ, loggerVars, runVars>>

GetHealth ==
    /\ \A s \in Servers : last[s].endpoint = "none"
    /\ \E s \in Servers :
        last' = [last EXCEPT ![s] =
                [NoRequest EXCEPT !.endpoint = "health", !.response = health(environ[s])]]
    /\ UNCHANGED <<environ, loggerVars, runVars>>

\* the clients have read the responses
Deliver ==
    /\ \E s \in Servers : last[s].endpoint # "none"
    /\ last' = [s \in Servers |-> NoRequest]
    /\ UNCHANGED <<environ, loggerVars, runVars>>

-----------------------------------------------------------------------------
(* modal_function.py: run_untrusted_code *)

\* what the submitted code does
Submissions ==
    [ blank      : BOOLEAN,      \* code.strip() is empty
      compile    : {"ok", "SyntaxError"},
      exec       : {"ok", "Exception", "SyntaxError", "BaseException"},
      last_kw    : BOOLEAN,      \* the last line starts with one of the keywords
      last_eval  : {"value", "raise"},
      fallback   : {"value", "Exception", "BaseException"},   \* eval(code)
      value      : {PyNone, PyInt(1)},   \* what the evaluated expression gives
      sets_stdout : BOOLEAN,     \* the code assigns sys.stdout
      closes_output : BOOLEAN ]  \* the code closes the stream it prints to

\* a submission names one behaviour: the fields a run does not reach are fixed
Reached(c) ==
    /\ c.blank => c.compile = "ok" /\ ~c.sets_stdout /\ ~c.closes_output
    /\ (c.blank \/ c.compile # "ok") =>
            c.exec = "ok" /\ ~c.sets_stdout /\ ~c.closes_output
    /\ (c.blank \/ c.compile # "ok" \/ c.exec # "ok") => ~c.last_kw
    /\ (c.blank \/ c.compile # "ok" \/ c.exec # "ok" \/ c.last_kw) => c.last_eval = "value"
    \* eval(code) of code that does not compile raises SyntaxError
    /\ c.compile # "ok" => c.fallback = "Exception"
    /\ (c.blank \/ (c.compile = "ok" /\ c.exec # "SyntaxError")) => c.fallback = "value"
    \* no expression is evaluated to a value
    /\ ~( \/ c.compile = "ok" /\ c.exec = "ok" /\ ~c.blank /\ ~c.last_kw /\ c.last_eval = "value"
          \/ c.compile = "ok" /\ c.exec = "SyntaxError" /\ c.fallback = "value" )
            => c.value = PyNone

\* lines 43-71: how the body of the outer try ends.  result: <<>> or <<value>>;
\* caught: an Exception reached `except Exception`; escaped: a BaseException
\* left the function; raised: an exception was raised at some point
TryBody(c) ==
    LET r(result, caught, escaped, raised) ==
            [result |-> result, caught |-> caught, escaped |-> escaped, raised |-> raised]
        Fallback ==
            CASE c.fallback = "value" -> r(<<c.value>>, FALSE, FALSE, TRUE)
              [] c.fallback = "Exception" -> r(<<>>, TRUE, FALSE, TRUE)
              [] c.fallback = "BaseException" -> r(<<>>, FALSE, TRUE, TRUE)
    IN  IF c.blank THEN r(<<>>, FALSE, FALSE, FALSE)
        ELSE IF c.compile = "SyntaxError" THEN Fallback
        ELSE CASE c.exec = "SyntaxError" -> Fallback
               [] c.exec = "Exception" -> r(<<>>, TRUE, FALSE, TRUE)
               [] c.exec = "BaseException" -> r(<<>>, FALSE, TRUE, TRUE)
               [] c.exec = "ok" ->
                    IF c.last_kw THEN r(<<>>, FALSE, FALSE, FALSE)
                    ELSE IF c.last_eval = "value" THEN r(<<c.value>>, FALSE, FALSE, FALSE)
                    ELSE r(<<>>, FALSE, FALSE, TRUE)   \* bare except: pass

\* lines 75-77: finally restores sys.stdout, however the body ended
StdoutAfterNoFinally(old_stdout, current, body) ==
    IF body.caught \/ body.escaped THEN current ELSE old_stdout
StdoutAfter(old_stdout, current, body) == old_stdout

\* lines 79-83
ReturnValue(body) ==
    PyDict(<< <<PyStr(<<"result">>), IF body.result = <<>> THEN PyNone ELSE body.result[1]>>,
              <<PyStr(<<"output">>), PyStr(<<"Executing in container as user: root (uid: 0)">>)>>,
              <<PyStr(<<"error">>),
                IF body.caught THEN PyStr(<<"Exception: message and traceback">>) ELSE PyNone>> >>)

NoCall ==
    [code |-> [blank |-> TRUE, compile |-> "ok", exec |-> "ok", last_kw |-> FALSE,
               last_eval |-> "value", fallback |-> "value", value |-> PyNone,
               sets_stdout |-> FALSE,
               closes_output |-> FALSE],
     called |-> FALSE, returned |-> FALSE, raised |-> FALSE,
     stdout_before |-> "", value |-> PyNone]

Streams == {"stdout", "logfile", "devnull"}

\* one invocation of run_untrusted_code
run_untrusted_code ==
    \E c \in {x \in Submissions : Reached(x)} :
        LET old_stdout == sys_stdout
            body       == TryBody(c)
            \* sys.stdout when the body ends: the StringIO, or what the code installed
            current    == IF c.sets_stdout THEN "user" ELSE "StringIO"
            \* output.getvalue() raises ValueError on a closed StringIO
            returns    == ~body.escaped /\ ~c.closes_output
        IN  /\ sys_stdout' = StdoutAfter(old_stdout, current, body)
            /\ call' = [code |-> c, called |-> TRUE, returned |-> returns,
                        raised |-> body.raised,
                        stdout_before |-> old_stdout,
                        value |-> IF returns THEN ReturnValue(body) ELSE PyNone]
            /\ UNCHANGED <<loggerVars, frontVars>>

\* the host installs another stream as sys.stdout between invocations
InstallStdout ==
    \E s \in Streams :
        /\ s # sys_stdout
        /\ sys_stdout' = s
        /\ call' = NoCall
        /\ UNCHANGED <<loggerVars, frontVars>>

-----------------------------------------------------------------------------
(* Initial states and specifications *)

\* values of the VULNERABLE variable; a process may also start without it
VulnerableValues ==
    { <<"t", "r", "u", "e">>,
      <<"\"", "T", "R", "U", "E", "\"">>,
      <<"'", "Y", "e", "s", "'">>,
      <<"\"", "'", "1", "'", "\"">>,
      <<"'", "t", "r", "u", "e">> }

Url == <<"http://logger:9090">>
Secret == <<"k">>

FrontEnvs ==
    { [x \in {} |-> <<>>], [LOGGER_URL |-> Url], [LOGGER_URL |-> <<>>] }
    \cup { [VULNERABLE |-> v] : v \in VulnerableValues }
    \cup { [VULNERABLE |-> v, LOGGER_URL |-> Url] : v \in VulnerableValues }

SecretEnvs ==
    { [LOGGER_URL |-> Url],
      [LOGGER_URL |-> Url, LOGGER_SECRET |-> Secret],
      [LOGGER_URL |-> Url, LOGGER_SECRET |-> <<"'">> \o Secret \o <<"'">>] }

Init ==
    /\ sidecarEnv \in SecretEnvs
    /\ frontEnv \in SecretEnvs
    /\ umask \in Umasks
    /\ now = 0
    /\ logDir = <<>>
    /\ fs = [f \in FileNames |-> <<>>]
    /\ cur = Idle
    /\ nreq = 0
    /\ logged = {}
    /\ fsAtReceive = [fs |-> fs, logDir |-> logDir]
    /\ environ \in [Servers -> FrontEnvs]
    /\ last = [s \in Servers |-> NoRequest]
    /\ sys_stdout \in Streams
    /\ call = NoCall

\* the logging sidecar
NextLogger ==
    \/ ReceiveFromFrontEnd
    \/ ReceiveForged
    \/ Verify
    \/ Stamp
    \/ Mkdir
    \/ \E k \in Kinds : write_text(k)
    \/ \E k \in Kinds : chmod(k)
    \/ ReturnLogged
    \/ IOError
    \/ Close
    \/ ClockSetBack

InitLogger ==
    /\ Init
    /\ environ = [s \in Servers |-> [x \in {} |-> <<>>]]
    /\ sys_stdout = "stdout"

SpecLogger == InitLogger /\ [][NextLogger]_vars

\* the front-end
NextFront == PostExecute \/ GetMode \/ GetHealth \/ Deliver

InitFront ==
    /\ Init
    /\ sidecarEnv = [LOGGER_URL |-> Url]
    /\ frontEnv = [LOGGER_URL |-> Url]
    /\ umask = {}
    /\ sys_stdout = "stdout"

SpecFront == InitFront /\ [][NextFront]_vars

\* the remote function
NextRun == run_untrusted_code \/ InstallStdout

InitRun ==
    /\ Init
    /\ sidecarEnv = [LOGGER_URL |-> Url]
    /\ frontEnv = [LOGGER_URL |-> Url]
    /\ umask = {}
    /\ environ = [s \in Servers |-> [x \in {} |-> <<>>]]

SpecRun == InitRun /\ [][NextRun]_vars

Next == NextLogger \/ NextFront \/ NextRun
Spec == Init /\ [][Next]_vars

-----------------------------------------------------------------------------
(* Properties of the logger sidecar, under SpecLogger *)

\* the signature is the HMAC, under the sidecar's secret, of the entry's other fields
SignatureMatches ==
    cur.entry.hmac_signature = expected_signature(sidecarEnv, cur.entry)

\* C1: a POST /log request whose hmac_signature equals the HMAC of its other fields
\* is answered {"status": "logged"}, and one whose signature differs in any way is
\* answered 403 "Invalid signature".
C1_SignatureDecidesAnswer ==
    cur.pc = "done" =>
        IF SignatureMatches
        THEN cur.status = 200 /\ cur.detail = "logged"
        ELSE cur.status = 403 /\ cur.detail = "Invalid signature"

\* C4: log records are write-once: the three files of every request answered
\* "logged" exist and hold what that request wrote; no other entry overwrote them.
C4_WriteOnce ==
    \A r \in logged : \A k \in Kinds :
        /\ fs[<<r.ts, k>>] # <<>>
        /\ fs[<<r.ts, k>>][1].owner = r.id

\* the two programs were started with the same LOGGER_SECRET environment value
SameSecretEnvironment ==
    /\ ("LOGGER_SECRET" \in DOMAIN frontEnv) <=> ("LOGGER_SECRET" \in DOMAIN sidecarEnv)
    /\ "LOGGER_SECRET" \in DOMAIN frontEnv => frontEnv.LOGGER_SECRET = sidecarEnv.LOGGER_SECRET

\* C5: with the same LOGGER_SECRET on both sides, an entry signed and sent by the
\* front-end's log_to_sidecar is never answered 403: the message the sidecar
\* serialises again is the message the front-end signed.
C5_FrontEndEntriesAccepted ==
    (cur.pc = "done" /\ cur.front /\ SameSecretEnvironment) =>
        /\ cur.status # 403
        /\ cur.entry.hmac_signature.msg = json_dumps(EntryData(cur.entry), TRUE)

\* C9: a request answered 403 leaves the log store as it was when the request
\* arrived, and nothing is created or written before the signature is verified;
\* no log file ever has an execute bit, and the three files of a request answered
\* "logged" have mode 0640.
C9_RejectedWritesNothingAndNoExecute ==
    /\ (cur.pc = "verify" \/ (cur.pc = "done" /\ cur.status = 403)) =>
            fs = fsAtReceive.fs /\ logDir = fsAtReceive.logDir
    /\ \A f \in FileNames : fs[f] # <<>> => fs[f][1].mode \cap ExecBits = {}
    /\ (cur.pc = "done" /\ cur.status = 200) =>
            \A k \in Kinds :
                /\ fs[<<cur.ts, k>>] # <<>>
                /\ fs[<<cur.ts, k>>][1].mode = {"ur", "uw", "gr"}

\* a forged request is rejected while the store already holds an accepted entry
C9_Witness ==
    /\ cur.pc = "done" /\ cur.status = 403
    /\ logged # {}
    /\ \E f \in FileNames : fs[f] # <<>> /\ fs[f][1].mode = {"ur", "uw", "gr"}

-----------------------------------------------------------------------------
(* Properties of the front-end, under SpecFront *)

Answered(s) == last[s].endpoint = "execute"
ResponseBody(s) == last[s].response.body
Field(s, k) == DictGet(ResponseBody(s), k, PyNone)

\* C2: every POST /execute ends with a JSON response the handler produced: 200
\* with "success": true, which needs the remote call to have returned, or 500 with
\* "success": false, "error", "details" and "mode"; no exception leaves the handler.
C2_HandlerAlwaysAnswers ==
    \A s \in Servers : Answered(s) =>
        /\ last[s].response.handled
        /\ \/ /\ last[s].response.status = 200
              /\ Field(s, <<"success">>) = PyBool(TRUE)
              /\ last[s].remote.kind = "return"
           \/ /\ last[s].response.status = 500
              /\ Field(s, <<"success">>) = PyBool(FALSE)
              /\ \A k \in {<<"error">>, <<"details">>, <<"mode">>} : HasKey(ResponseBody(s), k)

\* C3: the response of POST /execute does not depend on the log write: for one
\* request and one outcome of the remote call, two processes in the same mode
\* answer alike, whatever their logger configuration and whatever the POST to
\* the sidecar does.
C3_ResponseIndependentOfLogWrite ==
    \A s1, s2 \in Servers :
        ( /\ Answered(s1) /\ Answered(s2)
          /\ last[s1].req = last[s2].req /\ last[s1].remote = last[s2].remote
          /\ VULNERABLE_MODE(environ[s1]) = VULNERABLE_MODE(environ[s2]) )
        => last[s1].response = last[s2].response

\* one process has no logger, the other's POST to the sidecar raises after the
\* entry was built, and the remote call returned
C3_Witness ==
    \E s1, s2 \in Servers :
        /\ Answered(s1) /\ Answered(s2)
        /\ VULNERABLE_MODE(environ[s1]) = VULNERABLE_MODE(environ[s2])
        /\ LOGGER_URL(environ[s1]) = None /\ last[s1].sent = <<>>
        /\ LOGGER_URL(environ[s2]) = Some(Url) /\ last[s2].post = "raise"
        /\ last[s2].sent # <<>>
        /\ last[s2].response.status = 200

\* the VULNERABLE values that mean vulnerable mode: "true", "1" or "yes" once one
\* pair of surrounding quotes is stripped and the value is lower-cased
MeansVulnerable ==
    { <<"t", "r", "u", "e">>, <<"\"", "T", "R", "U", "E", "\"">>, <<"'", "Y", "e", "s", "'">> }
IsVulnerable(s) ==
    "VULNERABLE" \in DOMAIN environ[s] /\ environ[s].VULNERABLE \in MeansVulnerable
ModeOf(s) == PyStr(IF IsVulnerable(s) THEN <<"vulnerable">> ELSE <<"secure">>)

\* C6: the mode is vulnerable exactly for those values of VULNERABLE; the remote
\* function is obtained with use_firewall = not vulnerable; GET /mode and GET
\* /health report the mode with firewall_enabled = (mode is secure); and every
\* POST /execute response reports the mode.
C6_ModeReportedConsistently ==
    \A s \in Servers :
        /\ last[s].use_firewall # <<>> => last[s].use_firewall[1] = ~IsVulnerable(s)
        /\ last[s].endpoint \in {"mode", "health"} =>
                /\ Field(s, <<"mode">>) = ModeOf(s)
                /\ Field(s, <<"firewall_enabled">>) = PyBool(~IsVulnerable(s))
        /\ Answered(s) => Field(s, <<"mode">>) = ModeOf(s)

\* C7: a POST /execute request sends at most one log entry, and the output of the
\* entry is the body the client receives, so both carry the same success flag.
C7_LoggedOutputIsResponse ==
    \A s \in Servers : Answered(s) =>
        /\ Len(last[s].sent) <= 1
        /\ \A i \in 1..Len(last[s].sent) :
                /\ last[s].response.handled
                /\ last[s].sent[i].output = ResponseBody(s)
                /\ DictGet(last[s].sent[i].output, <<"success">>, PyNone)
                        = PyBool(last[s].response.status = 200)

\* a firewall block in secure mode is logged with its hint
C7_Witness ==
    \E s \in Servers :
        /\ Answered(s)
        /\ Len(last[s].sent) = 1
        /\ last[s].response.status = 500
        /\ HasKey(last[s].sent[1].output, <<"hint">>)

\* the messages that contain "rffickle" or "firewall" in some letter case
FirewallMessages ==
    { <<"R", "F", "F", "i", "c", "k", "l", "e">>,
      <<"x", " ", "F", "I", "R", "E", "W", "A", "L", "L", " ", "x">> }
\* the message of the exception an error response reports
ReportedMessage(s) ==
    IF HasKey(ResponseBody(s), <<"error">>) THEN Tail(Field(s, <<"error">>).s) ELSE <<>>

\* C8: in an error response, firewall_blocked is true exactly when the mode is
\* secure and the exception message contains "rffickle" or "firewall" in any
\* letter case; the hint is present exactly when firewall_blocked is true; in
\* vulnerable mode firewall_blocked is false and there is no hint.
C8_FirewallBlockedAndHint ==
    \A s \in Servers : (Answered(s) /\ last[s].response.status = 500) =>
        LET blocked == Field(s, <<"firewall_blocked">>) = PyBool(TRUE)
        IN  /\ blocked <=> (~IsVulnerable(s) /\ ReportedMessage(s) \in FirewallMessages)
            /\ HasKey(ResponseBody(s), <<"hint">>) <=> blocked
            /\ last[s].response.handled => HasKey(ResponseBody(s), <<"firewall_blocked">>)
            /\ IsVulnerable(s) => ~blocked /\ ~HasKey(ResponseBody(s), <<"hint">>)

\* an upper-case FIREWALL message: blocked in a secure process, not in a vulnerable one
C8_Witness ==
    \E s1, s2 \in Servers :
        /\ Answered(s1) /\ Answered(s2)
        /\ ~IsVulnerable(s1) /\ IsVulnerable(s2)
        /\ last[s1].remote.msg = <<"x", " ", "F", "I", "R", "E", "W", "A", "L", "L", " ", "x">>
        /\ Field(s1, <<"firewall_blocked">>) = PyBool(TRUE)
        /\ Field(s2, <<"firewall_blocked">>) = PyBool(FALSE)

-----------------------------------------------------------------------------
(* Properties of run_untrusted_code, under SpecRun *)

ReturnedError == DictGet(call.value, <<"error">>, PyObject)
ReturnedResult == DictGet(call.value, <<"result">>, PyObject)

C10_Common ==
    /\ call.called => sys_stdout = call.stdout_before
    /\ call.returned =>
        /\ Keys(call.value) = {PyStr(<<"result">>), PyStr(<<"output">>), PyStr(<<"error">>)}
        /\ Len(call.value.items) = 3
        /\ call.code.blank => ReturnedResult = PyNone /\ ReturnedError = PyNone

\* C10 as stated: sys.stdout is restored, the dictionary has the three keys, empty
\* code gives result None and error None, and "error" is None exactly when no
\* exception was raised.
C10_ErrorIffExceptionRaised ==
    /\ C10_Common
    /\ call.returned => (ReturnedError = PyNone <=> ~call.raised)

\* the code ran to its end: it is empty, or it compiled and exec raised nothing, or
\* compile or exec raised SyntaxError and eval of the whole code then gave a value
RanToEnd(c) ==
    \/ c.blank
    \/ c.compile = "ok" /\ c.exec = "ok"
    \/ /\ c.compile = "SyntaxError" \/ (c.compile = "ok" /\ c.exec = "SyntaxError")
       /\ c.fallback = "value"

\* C10 amended: as above, but "error" is None exactly when the code ran to its
\* end; an exception raised while the last line is evaluated again is swallowed.
C10_ErrorIffCodeFailed ==
    /\ C10_Common
    /\ call.returned => (ReturnedError = PyNone <=> RanToEnd(call.code))

\* the second evaluation of the last line raises and the call still reports no error
C10_Witness ==
    /\ call.returned
    /\ call.code.last_eval = "raise"
    /\ call.raised
    /\ ReturnedError = PyNone /\ ReturnedResult = PyNone
    /\ sys_stdout = call.stdout_before

====
